---- MODULE Spec2Model ----
(***************************************************************************)
(* Model of mcp-prompt-manager: the retrying HTTP client                   *)
(* (api_client.WorkerApiClient) and the two MCP tool handlers              *)
(* (mcp_server.mcp__get_all_names, mcp_server.mcp__get_content_by_name).   *)
(*                                                                         *)
(* Strings built with f-strings are sequences of tokens, so that "the      *)
(* message carries X" is a statement about the tokens.  The Chinese        *)
(* literals of the source are written as ASCII tokens; the original text   *)
(* is quoted in the comment next to each.  JSON values are tagged records. *)
(* Environment values are sequences of one-character strings so that int() *)
(* is a real parse.                                                        *)
(***************************************************************************)
EXTENDS Integers, Sequences, FiniteSets

VARIABLES
    environ,      \* os.environ at import time: variable name -> characters
    base_url,     \* WorkerApiClient.base_url
    timeout,      \* WorkerApiClient.timeout
    max_retries,  \* WorkerApiClient.max_retries
    pc,           \* "idle" | "attempt" | "sleep" | "returned"
    op,           \* the operation being run, "none" when idle
    arg,          \* the name argument of mcp__get_content_by_name
    method,       \* _make_request's method argument
    endpoint,     \* _make_request's endpoint argument
    attempt,      \* the loop variable of _make_request
    requests,     \* logger.debug records of _make_request (one per loop pass)
    http,         \* session.get / session.post calls made
    warnings,     \* logger.warning records of _make_request, in order
    errors,       \* logger.error records of _make_request
    sleeps,       \* arguments of time.sleep, in order
    decoded,      \* what response.json() returned in this call
    mr,           \* outcome of _make_request
    gap,          \* outcome of get_all_prompts
    gpn,          \* outcome of get_prompt_by_name
    out,          \* outcome of the handler
    calls,        \* the _make_request calls of this operation, in order
    prev,         \* history: what the previous operation decoded
    threads       \* concurrent invocations: thread -> its locals

vars == <<environ, base_url, timeout, max_retries, pc, op, arg, method,
          endpoint, attempt, requests, http, warnings, errors, sleeps,
          decoded, mr, gap, gpn, out, calls, prev, threads>>

config == <<environ, base_url, timeout, max_retries>>

----------------------------------------------------------------------------
(* Bounds of the model *)

\* largest retry count written in MCP_RETRIES
MaxEnvRetries == 3

\* number of handler invocations that run concurrently
NumThreads == 2

\* longest JSON array the remote API answers with
MaxLen == 2

----------------------------------------------------------------------------
(* Python values *)

JNull == [t |-> "null"]
JBool(b) == [t |-> "bool", b |-> b]
JNum(n) == [t |-> "num", n |-> n]
JStr(s) == [t |-> "str", s |-> s]
JObj(f) == [t |-> "obj", o |-> f]
JList(l) == [t |-> "list", l |-> l]

\* bool(v) of a decoded JSON value
Truthy(v) ==
    CASE v.t = "null" -> FALSE
      [] v.t = "bool" -> v.b
      [] v.t = "num" -> v.n # 0
      [] v.t = "str" -> v.s # ""
      [] v.t = "obj" -> DOMAIN v.o # {}
      [] v.t = "list" -> Len(v.l) # 0

\* type(v).__name__
PyTypeName(v) ==
    CASE v.t = "null" -> "NoneType"
      [] v.t = "bool" -> "bool"
      [] v.t = "num" -> "int"
      [] v.t = "str" -> "str"
      [] v.t = "obj" -> "dict"
      [] v.t = "list" -> "list"

\* d.get(k, default) of a dict
DictGet(d, k, default) == IF k \in DOMAIN d.o THEN d.o[k] ELSE default

Return(v) == [kind |-> "return", value |-> v]
Raise(type, msg) == [kind |-> "raise", type |-> type, msg |-> msg]
NoCall == [kind |-> "nocall"]

----------------------------------------------------------------------------
(* mcp_server.py: configuration *)

DEFAULT_CONFIG ==
    [WORKER_URL |-> <<"https://polished-math-2b32.zhongce-xie.workers.dev">>,
     API_TIMEOUT |-> 60,
     RETRIES |-> 3]

DigitChars == <<"0", "1", "2", "3", "4", "5", "6", "7", "8", "9">>

IsDigit(c) == \E i \in 1..10 : DigitChars[i] = c

DigitVal(c) == (CHOOSE i \in 1..10 : DigitChars[i] = c) - 1

IsSpace(c) == c \in {" ", "\t", "\n"}

RECURSIVE LStrip(_)
LStrip(s) == IF s # <<>> /\ IsSpace(Head(s)) THEN LStrip(Tail(s)) ELSE s

RECURSIVE RStrip(_)
RStrip(s) ==
    IF s # <<>> /\ IsSpace(s[Len(s)]) THEN RStrip(SubSeq(s, 1, Len(s) - 1)) ELSE s

RECURSIVE DigitsVal(_, _)
DigitsVal(s, acc) ==
    IF s = <<>> THEN acc ELSE DigitsVal(Tail(s), 10 * acc + DigitVal(Head(s)))

\* int(s) of a str: surrounding whitespace, an optional sign, decimal digits
\* (digit-group underscores are not modelled); ok = FALSE is ValueError
PyInt(s) ==
    LET body == RStrip(LStrip(s))
        signed == body # <<>> /\ Head(body) \in {"+", "-"}
        digits == IF signed THEN Tail(body) ELSE body
    IN  IF digits # <<>> /\ \A i \in 1..Len(digits) : IsDigit(digits[i])
        THEN [ok |-> TRUE,
              v |-> IF signed /\ Head(body) = "-"
                    THEN 0 - DigitsVal(digits, 0)
                    ELSE DigitsVal(digits, 0)]
        ELSE [ok |-> FALSE]

\* `if os.environ.get(k):` -- set and not the empty string
EnvSet(env, k) == k \in DOMAIN env /\ env[k] # <<>>

\* int(os.environ.get(k)) under try / except ValueError: keep the default
EnvInt(env, k, default) ==
    IF EnvSet(env, k) /\ PyInt(env[k]).ok THEN PyInt(env[k]).v ELSE default

load_config_from_env(env) ==
    [WORKER_URL |-> IF EnvSet(env, "MCP_WORKER_URL")
                    THEN env["MCP_WORKER_URL"]
                    ELSE DEFAULT_CONFIG.WORKER_URL,
     API_TIMEOUT |-> EnvInt(env, "MCP_API_TIMEOUT", DEFAULT_CONFIG.API_TIMEOUT),
     RETRIES |-> EnvInt(env, "MCP_RETRIES", DEFAULT_CONFIG.RETRIES)]

\* the environments the server is started in: at most one variable is set
EnvRetriesValues ==
    {<<DigitChars[n + 1]>> : n \in 0..MaxEnvRetries}
        \cup {<<>>, <<"-", "1">>, <<" ", "2">>, <<"x">>}

EnvTimeoutValues == {<<"5">>, <<"1", "0">>, <<"5", "s">>}

EnvUrlValues == {<<"http://localhost:8787">>}

Environs ==
    {<<>>}
        \cup {[k \in {"MCP_RETRIES"} |-> v] : v \in EnvRetriesValues}
        \cup {[k \in {"MCP_API_TIMEOUT"} |-> v] : v \in EnvTimeoutValues}
        \cup {[k \in {"MCP_WORKER_URL"} |-> v] : v \in EnvUrlValues}

----------------------------------------------------------------------------
(* api_client.py: the lookup service *)

\* a response that is no list is an error instead of an empty result
get_all_prompts_strict(m) ==
    IF m.kind = "raise" THEN m
    ELSE IF m.value.t # "list"
         THEN Raise("Exception", <<"invalid prompt list">>)
         ELSE Return(m.value)

\* the failure wrapped in a new exception instead of re-raised
get_all_prompts_wrapping(m) ==
    IF m.kind = "raise"
    THEN Raise("Exception", <<"get prompt list failed: ">> \o m.msg)
    ELSE IF ~Truthy(m.value) \/ m.value.t # "list"
         THEN Return(JList(<<>>))
         ELSE Return(m.value)

\* a list fetched by an earlier invocation is served again
get_all_prompts_cached(m) ==
    IF prev.kind = "return" /\ prev.value.t = "list" /\ Len(prev.value.l) > 0
    THEN Return(prev.value)
    ELSE IF m.kind = "raise" THEN m
         ELSE IF ~Truthy(m.value) \/ m.value.t # "list"
              THEN Return(JList(<<>>))
              ELSE Return(m.value)

\* get_all_prompts, after its call _make_request("GET", "prompts") ended with
\* outcome m; `except Exception: raise` re-raises the same exception
get_all_prompts(m) ==
    IF m.kind = "raise" THEN m
    ELSE IF ~Truthy(m.value) \/ m.value.t # "list"
         THEN Return(JList(<<>>))
         ELSE Return(m.value)

\* "'int' object has no attribute 'get'"
AttributeError(v) ==
    Raise("AttributeError", <<"'", PyTypeName(v), "' object has no attribute 'get'">>)

\* the message without the requested name
NotFound_no_name(name) == Raise("Exception", <<"no prompt found">>)

\* 未找到名称为 "{name}" 的提示词
NotFound(name) == Raise("Exception", <<"no prompt named \"", name, "\"">>)

\* the comparison of the name left out: the first record is the match
ScanPrompts_any_name(all_prompts, i, name) ==
    IF i > Len(all_prompts) THEN NotFound(name)
    ELSE IF all_prompts[i].t # "obj" THEN AttributeError(all_prompts[i])
         ELSE Return(all_prompts[i])

\* the scan keeps going after a match and returns the last one
ScanPrompts_last(all_prompts, i, name) ==
    LET hits == {j \in i..Len(all_prompts) :
                    /\ all_prompts[j].t = "obj"
                    /\ DictGet(all_prompts[j], "name", JNull) = JStr(name)}
    IN  IF hits = {} THEN NotFound(name)
        ELSE Return(all_prompts[CHOOSE j \in hits : \A h \in hits : h <= j])

\* the loop `for prompt in all_prompts` from element i on
RECURSIVE ScanPrompts(_, _, _)
ScanPrompts(all_prompts, i, name) ==
    IF i > Len(all_prompts) THEN NotFound(name)
    ELSE LET prompt == all_prompts[i]
         IN  IF prompt.t # "obj" THEN AttributeError(prompt)
             ELSE IF DictGet(prompt, "name", JNull) = JStr(name)
                  THEN Return(prompt)
                  ELSE ScanPrompts(all_prompts, i + 1, name)

\* get_prompt_by_name(name), its call of get_all_prompts having ended with g
get_prompt_by_name(name, g) ==
    IF g.kind = "raise" THEN g ELSE ScanPrompts(g.value.l, 1, name)

----------------------------------------------------------------------------
(* mcp_server.py: the handlers *)

SuccessEnvelope(message, data) ==
    [status |-> "success", message |-> message, data |-> data]

\* an error envelope given an empty data payload
ErrorEnvelope_with_data(message) ==
    [status |-> "error", message |-> message, data |-> JNull]

ErrorEnvelope(message) == [status |-> "error", message |-> message]

\* records without a name are filtered out
NamesOf_dropping(all_prompts) ==
    LET named == SelectSeq(all_prompts,
                           LAMBDA p : p.t = "obj" /\ "name" \in DOMAIN p.o)
    IN  Return([i \in 1..Len(named) |-> named[i].o.name])

\* names = [p.get("name") for p in all_prompts]
NamesOf(all_prompts) ==
    IF \E i \in 1..Len(all_prompts) : all_prompts[i].t # "obj"
    THEN AttributeError(
            all_prompts[CHOOSE i \in 1..Len(all_prompts) :
                            /\ all_prompts[i].t # "obj"
                            /\ \A j \in 1..(i - 1) : all_prompts[j].t = "obj"])
    ELSE Return([i \in 1..Len(all_prompts) |->
                    DictGet(all_prompts[i], "name", JNull)])

\* `except Exception as e` of mcp__get_all_names
\* 获取所有提示词名称失败: {str(e)}
names_except(o) ==
    IF o.kind = "raise"
    THEN Return(ErrorEnvelope(<<"get all prompt names failed: ">> \o o.msg))
    ELSE o

\* mcp__get_all_names(), its call of get_all_prompts having ended with g
\* 成功获取所有提示词名称
mcp__get_all_names(g) ==
    names_except(
        IF g.kind = "raise" THEN g
        ELSE LET names == NamesOf(g.value.l)
             IN  IF names.kind = "raise" THEN names
                 ELSE Return(SuccessEnvelope(<<"got all prompt names">>,
                                             names.value)))

\* a handler that catches the client's own Exception only
content_except_narrow(o) ==
    IF o.kind = "raise" /\ o.type = "Exception"
    THEN Return(ErrorEnvelope(<<"get prompt content by name failed: ">> \o o.msg))
    ELSE o

\* an error envelope that leaves out str(e)
content_except_no_detail(o) ==
    IF o.kind = "raise"
    THEN Return(ErrorEnvelope(<<"get prompt content by name failed: ">>))
    ELSE o

\* `except Exception as e` of mcp__get_content_by_name
\* 通过名称获取提示词内容失败: {str(e)}
content_except(o) ==
    IF o.kind = "raise"
    THEN Return(ErrorEnvelope(<<"get prompt content by name failed: ">> \o o.msg))
    ELSE o

\* category and description read without their "" default
mcp__get_content_by_name_no_defaults(name, r) ==
    content_except(
        IF r.kind = "raise" THEN r
        ELSE LET prompt == r.value
             IN  Return(SuccessEnvelope(
                    <<"got content of prompt named \"", name, "\"">>,
                    [id |-> DictGet(prompt, "id", JNull),
                     name |-> DictGet(prompt, "name", JNull),
                     content |-> DictGet(prompt, "content", JNull),
                     category |-> DictGet(prompt, "category", JNull),
                     description |-> DictGet(prompt, "description", JNull)])))

\* mcp__get_content_by_name(name), its call of get_prompt_by_name having
\* ended with r
\* 成功获取名称为 "{name}" 的提示词内容
mcp__get_content_by_name(name, r) ==
    content_except(
        IF r.kind = "raise" THEN r
        ELSE LET prompt == r.value
             IN  Return(SuccessEnvelope(
                    <<"got content of prompt named \"", name, "\"">>,
                    [id |-> DictGet(prompt, "id", JNull),
                     name |-> DictGet(prompt, "name", JNull),
                     content |-> DictGet(prompt, "content", JNull),
                     category |-> DictGet(prompt, "category", JStr("")),
                     description |-> DictGet(prompt, "description", JStr(""))])))

----------------------------------------------------------------------------
(* Inputs *)

\* str(e) of the RequestException of a failed attempt: raised by the
\* transport, by response.raise_for_status() or by response.json()
\* (requests.exceptions.JSONDecodeError is a RequestException)
FailureCauses == {"ConnectTimeout", "HTTPError", "JSONDecodeError"}

Prompt1 ==
    JObj([id |-> JNum(1), name |-> JStr("a"), content |-> JStr("c1")])

Prompt2 ==
    JObj([id |-> JNum(2), name |-> JStr("a"), content |-> JStr("c2"),
          category |-> JStr("k"), description |-> JStr("d")])

Prompt3 ==
    JObj([id |-> JNum(3), name |-> JStr("A"), content |-> JStr("c3")])

\* a record without a name field
Prompt4 == JObj([id |-> JNum(4), content |-> JStr("c4")])

Records == {Prompt1, Prompt2, Prompt3, Prompt4}

Elements == Records \cup {JNum(42), JStr("a")}

NonLists ==
    {JNull, JNum(0), JNum(1), JStr(""), JStr("a"), JBool(TRUE), JBool(FALSE),
     JObj(<<>>), Prompt1}

SeqsUpTo(S, n) == UNION {[1..k -> S] : k \in 0..n}

\* what response.json() may decode to
Bodies == {JList(l) : l \in SeqsUpTo(Elements, MaxLen)} \cup NonLists

Names == {"a", "A", "zz"}

GET == <<"G", "E", "T">>

POST == <<"P", "O", "S", "T">>

Methods == {GET, POST, <<"g", "e", "t">>, <<"D", "E", "L", "E", "T", "E">>}

LowerChars == <<"a", "b", "c", "d", "e", "f", "g", "h", "i", "j", "k", "l", "m",
                "n", "o", "p", "q", "r", "s", "t", "u", "v", "w", "x", "y", "z">>

UpperChars == <<"A", "B", "C", "D", "E", "F", "G", "H", "I", "J", "K", "L", "M",
                "N", "O", "P", "Q", "R", "S", "T", "U", "V", "W", "X", "Y", "Z">>

\* str.upper()
Upper(s) ==
    [i \in 1..Len(s) |->
        IF \E j \in 1..Len(LowerChars) : LowerChars[j] = s[i]
        THEN UpperChars[CHOOSE j \in 1..Len(LowerChars) : LowerChars[j] = s[i]]
        ELSE s[i]]

----------------------------------------------------------------------------
(* api_client.py: _make_request *)

\* the branch `else: raise ValueError(...)` is not taken
Supported(m) == Upper(m) = GET \/ Upper(m) = POST

\* 不支持的HTTP方法: {method}
UnsupportedMethod(m) ==
    Raise("ValueError", <<"unsupported HTTP method: ">> \o m)

\* the message without the cause
RequestFailed_no_cause(e) == Raise("Exception", <<"API request failed: ">>)

\* API请求失败: {str(e)}
RequestFailed(e) == Raise("Exception", <<"API request failed: ", e>>)

\* response.json() raising a plain ValueError, which the clause lets through
IsRequestException_without_json(e) == e \in {"ConnectTimeout", "HTTPError"}

\* `except RequestException as e`: the exceptions of requests, among them
\* ConnectTimeout, HTTPError (raise_for_status) and JSONDecodeError (json())
IsRequestException(e) == e \in {"ConnectTimeout", "HTTPError", "JSONDecodeError"}

\* the test for the last attempt left out: every failure is retried
IsLastAttempt_never(a, n) == FALSE

\* the comparison written against max_retries instead of max_retries - 1
IsLastAttempt_off_by_one(a, n) == a = n

\* `if attempt == self.max_retries - 1`
IsLastAttempt(a, n) == a = n - 1

\* a linear delay in place of the exponential one
Backoff_linear(a) == 2 * a

\* the argument of time.sleep
Backoff(a) == 2 ^ a

\* what a pass of the retry loop leaves alone
call_frame == <<config, prev, threads, calls, op, arg, method, endpoint>>

\* the rest of the operation o(a) once its _make_request call ended with m
Finish(o, a, m) ==
    LET g == IF o = "_make_request" THEN NoCall ELSE get_all_prompts(m)
        r == IF o = "mcp__get_content_by_name"
             THEN get_prompt_by_name(a, g)
             ELSE NoCall
    IN  /\ pc' = "returned"
        /\ mr' = m
        /\ gap' = g
        /\ gpn' = r
        /\ out' = CASE o = "mcp__get_all_names" -> mcp__get_all_names(g)
                    [] o = "mcp__get_content_by_name" ->
                            mcp__get_content_by_name(a, r)
                    [] OTHER -> NoCall

\* entry of operation o up to the first pass of `for attempt in
\* range(self.max_retries)`; an empty range falls through to `return None`
Begin(o, a, m, e) ==
    /\ pc = "idle"
    /\ op' = o
    /\ arg' = a
    /\ method' = m
    /\ endpoint' = e
    /\ calls' = Append(calls, [method |-> m, endpoint |-> e])
    /\ IF 0 < max_retries
       THEN pc' = "attempt" /\ UNCHANGED <<mr, gap, gpn, out>>
       ELSE Finish(o, a, Return(JNull))
    /\ UNCHANGED <<config, prev, threads, attempt, requests, http, warnings,
                   errors, sleeps, decoded>>

Call_get_all_names == Begin("mcp__get_all_names", "", GET, "prompts")

Call_get_content_by_name(name) ==
    Begin("mcp__get_content_by_name", name, GET, "prompts")

Call_make_request(m) == Begin("_make_request", "", m, "prompts")

\* a pass whose method is neither GET nor POST: ValueError is no
\* RequestException and leaves _make_request
AttemptUnsupported ==
    /\ pc = "attempt"
    /\ ~Supported(method)
    /\ requests' = requests + 1
    /\ Finish(op, arg, UnsupportedMethod(method))
    /\ UNCHANGED <<call_frame, attempt, http,
                   warnings, errors, sleeps, decoded>>

\* a pass whose response has a success status and decodes to body
AttemptOk(body) ==
    /\ pc = "attempt"
    /\ Supported(method)
    /\ requests' = requests + 1
    /\ http' = http + 1
    /\ decoded' = Return(body)
    /\ Finish(op, arg, Return(body))
    /\ UNCHANGED <<call_frame, attempt, warnings,
                   errors, sleeps>>

\* a pass that raises e, from the transport, from raise_for_status() or from
\* response.json(); an exception the except clause does not catch leaves
\* _make_request as it is
AttemptFail(e) ==
    /\ pc = "attempt"
    /\ Supported(method)
    /\ requests' = requests + 1
    /\ http' = http + 1
    /\ IF IsRequestException(e)
       THEN /\ warnings' = Append(warnings,
                                  [attempt |-> attempt + 1, of |-> max_retries,
                                   e |-> e])
            /\ IF IsLastAttempt(attempt, max_retries)
               THEN /\ errors' = errors + 1
                    /\ Finish(op, arg, RequestFailed(e))
               ELSE /\ pc' = "sleep"
                    /\ UNCHANGED <<errors, mr, gap, gpn, out>>
       ELSE /\ Finish(op, arg, Raise(e, <<e>>))
            /\ UNCHANGED <<warnings, errors>>
    /\ UNCHANGED <<call_frame, attempt, sleeps,
                   decoded>>

\* time.sleep(2 ** attempt), then the next pass of the loop
Sleep ==
    /\ pc = "sleep"
    /\ sleeps' = Append(sleeps, Backoff(attempt))
    /\ attempt' = attempt + 1
    /\ IF attempt + 1 < max_retries
       THEN pc' = "attempt" /\ UNCHANGED <<mr, gap, gpn, out>>
       ELSE Finish(op, arg, Return(JNull))
    /\ UNCHANGED <<call_frame, requests, http,
                   warnings, errors, decoded>>

\* the locals of the operation are gone once it has returned
Reset ==
    /\ pc' = "idle"
    /\ op' = "none"
    /\ arg' = ""
    /\ method' = <<>>
    /\ endpoint' = ""
    /\ attempt' = 0
    /\ requests' = 0
    /\ http' = 0
    /\ warnings' = <<>>
    /\ errors' = 0
    /\ sleeps' = <<>>
    /\ decoded' = NoCall
    /\ mr' = NoCall
    /\ gap' = NoCall
    /\ gpn' = NoCall
    /\ out' = NoCall
    /\ calls' = <<>>
    /\ UNCHANGED <<config, threads>>

\* the outcome is handed to the caller; nothing of the call is kept
Respond ==
    /\ pc = "returned"
    /\ Reset
    /\ UNCHANGED prev

\* the locals of an invocation that runs on a thread of its own
IdleThread == [pc |-> "idle", attempt |-> 0, http |-> 0, failed |-> 0,
               sleeps |-> <<>>]

Threads == 1..NumThreads

\* module import: CONFIG = load_config_from_env(); api_client = initialize()
Init ==
    /\ environ \in Environs
    /\ base_url = load_config_from_env(environ).WORKER_URL
    /\ timeout = load_config_from_env(environ).API_TIMEOUT
    /\ max_retries = load_config_from_env(environ).RETRIES
    /\ pc = "idle"
    /\ op = "none"
    /\ arg = ""
    /\ method = <<>>
    /\ endpoint = ""
    /\ attempt = 0
    /\ requests = 0
    /\ http = 0
    /\ warnings = <<>>
    /\ errors = 0
    /\ sleeps = <<>>
    /\ decoded = NoCall
    /\ mr = NoCall
    /\ gap = NoCall
    /\ gpn = NoCall
    /\ out = NoCall
    /\ calls = <<>>
    /\ prev = NoCall
    /\ threads = [p \in Threads |-> IdleThread]

Next ==
    \/ Call_get_all_names
    \/ \E name \in Names : Call_get_content_by_name(name)
    \/ \E m \in Methods : Call_make_request(m)
    \/ AttemptUnsupported
    \/ \E body \in Bodies : AttemptOk(body)
    \/ \E e \in FailureCauses : AttemptFail(e)
    \/ Sleep
    \/ Respond

Spec == Init /\ [][Next]_vars

----------------------------------------------------------------------------
(* Successive handler invocations, the response of the last successful one
   remembered in the history variable prev *)

\* what the remote API answers with from one invocation to the next
HistoryBodies ==
    {JList(<<>>), JList(<<Prompt1>>), JList(<<Prompt3, Prompt4>>), JNull}

\* Respond, recording what this invocation decoded
RespondRemember ==
    /\ pc = "returned"
    /\ Reset
    /\ prev' = IF decoded.kind = "return" THEN decoded ELSE prev

NextHistory ==
    \/ Call_get_all_names
    \/ \E name \in Names : Call_get_content_by_name(name)
    \/ \E body \in HistoryBodies : AttemptOk(body)
    \/ \E e \in FailureCauses : AttemptFail(e)
    \/ Sleep
    \/ RespondRemember

SpecHistory == Init /\ [][NextHistory]_vars

----------------------------------------------------------------------------
(* Progress: an HTTP attempt ends (the transport enforces the timeout of
   each attempt) and time.sleep returns *)

\* a pass of the loop comes to its end, one way or another
Attempt ==
    \/ AttemptUnsupported
    \/ \E body \in HistoryBodies : AttemptOk(body)
    \/ \E e \in FailureCauses : AttemptFail(e)

NextLive ==
    \/ Call_get_all_names
    \/ \E name \in Names : Call_get_content_by_name(name)
    \/ \E m \in Methods : Call_make_request(m)
    \/ Attempt
    \/ Sleep
    \/ Respond

SpecLive == Init /\ [][NextLive]_vars /\ WF_vars(Attempt) /\ WF_vars(Sleep)

----------------------------------------------------------------------------
(* Handler invocations on threads of their own, sharing api_client.  The
   client has no lock; base_url, timeout and max_retries are only read, and
   attempt is a local of each _make_request call. *)

\* everything but the threads
sequential == <<environ, base_url, timeout, max_retries, pc, op, arg, method,
                endpoint, attempt, requests, http, warnings, errors, sleeps,
                decoded, mr, gap, gpn, out, calls, prev>>

\* the loop counter kept on the shared client instead of in a local
NextPass_shared(t, p) ==
    [q \in DOMAIN t |-> [t[q] EXCEPT !.attempt = t[p].attempt + 1]]

\* the next value of `attempt` in `for attempt in range(self.max_retries)`
NextPass(t, p) == [t EXCEPT ![p].attempt = t[p].attempt + 1]

\* thread p enters a handler, down to the loop of _make_request
T_Call(p) ==
    /\ threads[p].pc = "idle"
    /\ threads' = [threads EXCEPT
                      ![p].pc = IF 0 < max_retries THEN "attempt" ELSE "returned"]
    /\ UNCHANGED sequential

\* thread p calls self.session.get and waits for the response
T_Send(p) ==
    /\ threads[p].pc = "attempt"
    /\ threads' = [threads EXCEPT ![p].pc = "wait",
                                  ![p].http = threads[p].http + 1]
    /\ UNCHANGED sequential

\* the response arrives and decodes: `return response.json()`
T_Ok(p) ==
    /\ threads[p].pc = "wait"
    /\ threads' = [threads EXCEPT ![p].pc = "returned"]
    /\ UNCHANGED sequential

\* the attempt raises a RequestException
T_Fail(p) ==
    /\ threads[p].pc = "wait"
    /\ threads' = [threads EXCEPT
                      ![p].failed = threads[p].failed + 1,
                      ![p].pc = IF IsLastAttempt(threads[p].attempt, max_retries)
                                THEN "returned"
                                ELSE "sleep"]
    /\ UNCHANGED sequential

\* time.sleep(2 ** attempt) on thread p, then its next pass
T_Sleep(p) ==
    /\ threads[p].pc = "sleep"
    /\ threads' =
          NextPass([threads EXCEPT
                       ![p].sleeps = Append(threads[p].sleeps,
                                            Backoff(threads[p].attempt)),
                       ![p].pc = IF threads[p].attempt + 1 < max_retries
                                 THEN "attempt"
                                 ELSE "returned"],
                   p)
    /\ UNCHANGED sequential

\* the handler on thread p returns its envelope
T_Respond(p) ==
    /\ threads[p].pc = "returned"
    /\ threads' = [threads EXCEPT ![p] = IdleThread]
    /\ UNCHANGED sequential

T_Step(p) ==
    \/ T_Call(p)
    \/ T_Send(p)
    \/ T_Ok(p)
    \/ T_Fail(p)
    \/ T_Sleep(p)
    \/ T_Respond(p)

NextConc == \E p \in Threads : T_Step(p)

SpecConc == Init /\ [][NextConc]_vars

----------------------------------------------------------------------------
(* Properties *)

Handlers == {"mcp__get_all_names", "mcp__get_content_by_name"}

\* 2^0, 2^1, ..., 2^(k-1)
ExpectedSleeps(k) == [i \in 1..k |-> 2 ^ (i - 1)]

\* C1: a GET or POST call of _make_request whose every attempt failed has
\* made exactly max_retries attempts and slept 2^0, ..., 2^(max_retries-2),
\* in that order; each sleep lies between two attempts, so none follows the
\* last attempt.  max_retries ranges over the non-negative integers of the
\* client configuration's data model.
C1_ExhaustedRetries ==
    /\ Supported(method) =>
          /\ sleeps = ExpectedSleeps(Len(sleeps))
          /\ Len(sleeps) <= http
          /\ http <= Len(sleeps) + 1
          /\ pc = "attempt" => http = Len(sleeps)
    /\ (/\ pc = "returned"
        /\ Supported(method)
        /\ max_retries >= 0
        /\ Len(warnings) = http)
          => /\ http = max_retries
             /\ sleeps = ExpectedSleeps(max_retries - 1)

C1_Witness ==
    /\ pc = "returned"
    /\ Supported(method)
    /\ max_retries = 3
    /\ Len(warnings) = 3
    /\ http = 3
    /\ sleeps = <<1, 2>>

C2_Returned ==
    (pc = "returned" /\ decoded.kind = "return")
        => /\ http = Len(warnings) + 1
           /\ Len(warnings) < max_retries
           /\ \A i \in 1..Len(warnings) : warnings[i].attempt = i
           /\ mr = decoded
           /\ sleeps = ExpectedSleeps(Len(warnings))

\* C2: a call whose attempts 0..k-1 failed and whose attempt k succeeded has
\* made k+1 attempts with k < max_retries, returns the body that attempt k
\* decoded, and makes no attempt and no sleep after the success.
C2_SuccessStopsRetrying ==
    /\ []C2_Returned
    /\ [][decoded.kind = "return"
            => \/ pc' = "idle"
               \/ http' = http /\ sleeps' = sleeps /\ mr' = mr]_vars

C2_Witness ==
    /\ pc = "returned"
    /\ Len(warnings) = 2
    /\ http = 3
    /\ sleeps = <<1, 2>>
    /\ decoded = Return(JList(<<Prompt1>>))
    /\ mr = Return(JList(<<Prompt1>>))

\* the lookup behind the handler raised
LookupFailed ==
    \/ op = "mcp__get_all_names" /\ gap.kind = "raise"
    \/ op = "mcp__get_content_by_name" /\ gpn.kind = "raise"

\* the fetched sequence has an element that is no record
NonRecordFetched ==
    /\ gap.kind = "return"
    /\ \E i \in 1..Len(gap.value.l) : gap.value.l[i].t # "obj"

\* C3: whatever the fetch did, a handler returns an envelope and raises
\* nothing; the envelope has status "error" whenever the lookup raised, and
\* for mcp__get_all_names also when an element of the response is no record.
C3_NoExceptionCrossesBoundary ==
    (pc = "returned" /\ op \in Handlers)
        => /\ out.kind = "return"
           /\ "status" \in DOMAIN out.value
           /\ LookupFailed => out.value.status = "error"
           /\ (op = "mcp__get_all_names" /\ NonRecordFetched)
                 => out.value.status = "error"

C3_Witness ==
    /\ pc = "returned"
    /\ op = "mcp__get_content_by_name"
    /\ gpn.kind = "raise"
    /\ gpn.type = "AttributeError"
    /\ out.kind = "return"
    /\ out.value.status = "error"

\* C4: when attempt max_retries-1 has failed, _make_request has ended with
\* the NetworkError built from the cause of that attempt, and the number of
\* attempts stays max_retries.
C4_LastCauseCarried ==
    (max_retries >= 1 /\ Len(warnings) = max_retries)
        => /\ pc = "returned"
           /\ mr = Raise("Exception",
                         <<"API request failed: ", warnings[max_retries].e>>)
           /\ http = max_retries

C4_Witness ==
    /\ max_retries = 3
    /\ Len(warnings) = 3
    /\ warnings[1].e = "ConnectTimeout"
    /\ warnings[2].e = "JSONDecodeError"
    /\ warnings[3].e = "HTTPError"
    /\ mr = Raise("Exception", <<"API request failed: ", "HTTPError">>)

\* C5: a call of _make_request with a method other than GET and POST ends
\* with the unsupported-method error, with no attempt logged, no HTTP call
\* and no sleep.
C5_UnsupportedMethodFails ==
    (pc = "returned" /\ op = "_make_request" /\ ~Supported(method))
        => /\ mr = UnsupportedMethod(method)
           /\ requests = 0
           /\ warnings = <<>>
           /\ http = 0
           /\ sleeps = <<>>

\* v is a record whose name field is exactly name
IsNamed(v, name) ==
    v.t = "obj" /\ "name" \in DOMAIN v.o /\ v.o.name = JStr(name)

C7_NotFoundWheneverNoMatch ==
    (/\ pc = "returned"
     /\ op = "mcp__get_content_by_name"
     /\ gap.kind = "return"
     /\ \A i \in 1..Len(gap.value.l) : ~IsNamed(gap.value.l[i], arg))
        => gpn = Raise("Exception", <<"no prompt named \"", arg, "\"">>)

\* C7 as amended: get_prompt_by_name(name) ends with the not-found error
\* carrying name whenever every element of the fetched sequence is a record
\* and none of them is named name, the empty sequence included.
C7_NotFoundAmongRecords ==
    (/\ pc = "returned"
     /\ op = "mcp__get_content_by_name"
     /\ gap.kind = "return"
     /\ \A i \in 1..Len(gap.value.l) :
            gap.value.l[i].t = "obj" /\ ~IsNamed(gap.value.l[i], arg))
        => gpn = Raise("Exception", <<"no prompt named \"", arg, "\"">>)

C7_Witness ==
    /\ pc = "returned"
    /\ op = "mcp__get_content_by_name"
    /\ arg = "A"
    /\ gap = Return(JList(<<Prompt1, Prompt4>>))
    /\ gpn = Raise("Exception", <<"no prompt named \"", "A", "\"">>)

\* C8: get_all_prompts returns the decoded response itself when that is a
\* sequence, and the empty sequence when it is any other JSON value.
C8_NonListDegradesToEmpty ==
    (pc = "returned" /\ op \in Handlers /\ decoded.kind = "return")
        => /\ decoded.value.t = "list" => gap = Return(decoded.value)
           /\ decoded.value.t # "list" => gap = Return(JList(<<>>))

C8_Witness ==
    /\ pc = "returned"
    /\ op = "mcp__get_all_names"
    /\ decoded = Return(Prompt1)
    /\ gap = Return(JList(<<>>))

\* C9: when the fetch returned a sequence of records, mcp__get_all_names
\* returns a success envelope whose data has one entry per record, in order:
\* the record's name, or null when the record has no name field.
C9_NamesKeepLengthAndOrder ==
    (/\ pc = "returned"
     /\ op = "mcp__get_all_names"
     /\ gap.kind = "return"
     /\ \A i \in 1..Len(gap.value.l) : gap.value.l[i].t = "obj")
        => LET l == gap.value.l
           IN  /\ out.kind = "return"
               /\ out.value.status = "success"
               /\ Len(out.value.data) = Len(l)
               /\ \A i \in 1..Len(l) :
                     out.value.data[i] =
                         IF "name" \in DOMAIN l[i].o THEN l[i].o.name ELSE JNull

C9_Witness ==
    /\ pc = "returned"
    /\ op = "mcp__get_all_names"
    /\ gap = Return(JList(<<Prompt4, Prompt1>>))
    /\ out.kind = "return"
    /\ out.value.data = <<JNull, JStr("a")>>

\* C10: an envelope returned by a handler has status success or error and a
\* message, and has a data payload exactly when the status is success.
C10_EnvelopeShape ==
    (pc = "returned" /\ op \in Handlers /\ out.kind = "return")
        => /\ DOMAIN out.value \subseteq {"status", "message", "data"}
           /\ {"status", "message"} \subseteq DOMAIN out.value
           /\ out.value.status \in {"success", "error"}
           /\ Len(out.value.message) > 0
           /\ "data" \in DOMAIN out.value <=> out.value.status = "success"

C10_Witness ==
    /\ pc = "returned"
    /\ op = "mcp__get_all_names"
    /\ mr.kind = "raise"
    /\ out.kind = "return"
    /\ out.value.status = "error"
    /\ DOMAIN out.value = {"status", "message"}

\* the value of field k of record v, or d when v has no field k
FieldOr(v, k, d) == IF k \in DOMAIN v.o THEN v.o[k] ELSE d

\* C11: on success mcp__get_content_by_name returns data with exactly the
\* fields id, name, content, category and description, each copied from the
\* matched record; category and description are "" when the record has no
\* such field (id and content are null when it has none).
C11_ContentDataDefaults ==
    (pc = "returned" /\ op = "mcp__get_content_by_name" /\ gpn.kind = "return")
        => /\ out.kind = "return"
           /\ out.value.status = "success"
           /\ DOMAIN out.value.data =
                 {"id", "name", "content", "category", "description"}
           /\ out.value.data.id = FieldOr(gpn.value, "id", JNull)
           /\ out.value.data.name = FieldOr(gpn.value, "name", JNull)
           /\ out.value.data.content = FieldOr(gpn.value, "content", JNull)
           /\ out.value.data.category = FieldOr(gpn.value, "category", JStr(""))
           /\ out.value.data.description =
                 FieldOr(gpn.value, "description", JStr(""))

C11_Witness ==
    /\ pc = "returned"
    /\ op = "mcp__get_content_by_name"
    /\ gpn = Return(Prompt3)
    /\ out.kind = "return"
    /\ out.value.data.id = JNum(3)
    /\ out.value.data.category = JStr("")
    /\ out.value.data.description = JStr("")

\* the tokens of a message
Tokens(msg) == {msg[i] : i \in 1..Len(msg)}

\* msg ends with the tokens of tail
EndsWith(msg, tail) ==
    /\ Len(tail) <= Len(msg)
    /\ SubSeq(msg, Len(msg) - Len(tail) + 1, Len(msg)) = tail

\* C12: when the lookup behind mcp__get_content_by_name(x) raised, the error
\* envelope's message ends with the description of that failure; it contains
\* x when no record was named x, and the cause of the last failed attempt
\* when the retries were exhausted.
C12_ErrorMessageCarriesCause ==
    (pc = "returned" /\ op = "mcp__get_content_by_name" /\ gpn.kind = "raise")
        => /\ out.kind = "return"
           /\ out.value.status = "error"
           /\ EndsWith(out.value.message, gpn.msg)
           /\ (/\ gap.kind = "return"
               /\ \A i \in 1..Len(gap.value.l) :
                     gap.value.l[i].t = "obj" /\ ~IsNamed(gap.value.l[i], arg))
                 => arg \in Tokens(out.value.message)
           /\ (max_retries >= 1 /\ Len(warnings) = max_retries)
                 => warnings[max_retries].e \in Tokens(out.value.message)

C12_Witness ==
    /\ pc = "returned"
    /\ op = "mcp__get_content_by_name"
    /\ arg = "zz"
    /\ max_retries = 2
    /\ Len(warnings) = 2
    /\ warnings[1].e = "HTTPError"
    /\ warnings[2].e = "ConnectTimeout"
    /\ out.kind = "return"
    /\ "ConnectTimeout" \in Tokens(out.value.message)

\* C14: an attempt that ends in a non-success status (HTTPError) or in a JSON
\* decode failure (JSONDecodeError) is one failed attempt like a transport
\* failure: it is logged as the failure of its attempt, it is followed by the
\* backoff sleep when it is not the last attempt, and it ends the call with
\* the NetworkError of its cause when it is the last.
C14_StatusAndDecodeFailuresRetried ==
    /\ Supported(method) =>
          http = Len(warnings) + (IF decoded.kind = "return" THEN 1 ELSE 0)
    /\ \A i \in 1..Len(warnings) :
          /\ warnings[i].attempt = i
          /\ i < max_retries => Len(sleeps) >= i - 1
          /\ (i < max_retries /\ i = Len(warnings))
                => \/ pc = "sleep" /\ Len(sleeps) = i - 1
                   \/ pc = "attempt" /\ Len(sleeps) = i
                   \/ pc = "returned" /\ decoded.kind = "return"
          /\ i = max_retries
                => /\ pc = "returned"
                   /\ mr = Raise("Exception",
                                 <<"API request failed: ", warnings[i].e>>)
    /\ (pc = "returned" /\ Supported(method) /\ mr.kind = "raise")
          => /\ mr.type = "Exception"
             /\ Len(warnings) = max_retries

C14_Witness ==
    /\ pc = "returned"
    /\ max_retries = 3
    /\ Len(warnings) = 3
    /\ warnings[1].e = "JSONDecodeError"
    /\ warnings[2].e = "HTTPError"
    /\ warnings[3].e = "JSONDecodeError"
    /\ sleeps = <<1, 2>>
    /\ mr = Raise("Exception", <<"API request failed: ", "JSONDecodeError">>)

\* C15: an invocation of a handler makes exactly one _make_request call, GET
\* on "prompts"; it makes no more HTTP attempts than max_retries (none when
\* max_retries is not positive), and a failure of that call is what
\* get_all_prompts and get_prompt_by_name raise, description unchanged.
C15_LookupAddsNoRetry ==
    (op \in Handlers /\ pc # "idle")
        => /\ calls = <<[method |-> GET, endpoint |-> "prompts"]>>
           /\ http <= (IF max_retries > 0 THEN max_retries ELSE 0)
           /\ (pc = "returned" /\ mr.kind = "raise")
                 => /\ gap = mr
                    /\ op = "mcp__get_content_by_name" => gpn = mr

C15_Witness ==
    /\ pc = "returned"
    /\ op = "mcp__get_content_by_name"
    /\ max_retries = 3
    /\ http = 3
    /\ Len(calls) = 1
    /\ mr = Raise("Exception", <<"API request failed: ", "HTTPError">>)
    /\ gpn = mr

FetchedNow ==
    IF decoded.kind = "return" /\ decoded.value.t = "list"
    THEN decoded.value.l
    ELSE <<>>

C16_EnvelopeFromThisInvocation ==
    (pc = "returned" /\ out.kind = "return" /\ out.value.status = "success")
        => /\ op = "mcp__get_all_names"
                 => /\ Len(out.value.data) = Len(FetchedNow)
                    /\ \A i \in 1..Len(FetchedNow) :
                          out.value.data[i] = FieldOr(FetchedNow[i], "name", JNull)
           /\ op = "mcp__get_content_by_name"
                 => \E i \in 1..Len(FetchedNow) :
                       /\ FetchedNow[i] = gpn.value
                       /\ out.value.data.content =
                             FieldOr(FetchedNow[i], "content", JNull)

C16_NothingRetained ==
    pc = "idle"
        => /\ decoded = NoCall
           /\ mr = NoCall
           /\ gap = NoCall
           /\ gpn = NoCall
           /\ out = NoCall
           /\ warnings = <<>>

\* C16: the client configuration never changes; between invocations nothing
\* of the last one is kept; and a success envelope is built from the
\* sequence fetched during its own invocation, whatever an earlier
\* invocation fetched.
C16_StatelessBetweenInvocations ==
    /\ []C16_EnvelopeFromThisInvocation
    /\ []C16_NothingRetained
    /\ [][<<base_url, timeout, max_retries>>' = <<base_url, timeout, max_retries>>]_vars

C16_Witness ==
    /\ pc = "returned"
    /\ op = "mcp__get_all_names"
    /\ prev = Return(JList(<<Prompt1>>))
    /\ decoded = Return(JList(<<Prompt3, Prompt4>>))
    /\ out.kind = "return"
    /\ out.value.data = <<JStr("A"), JNull>>

\* C17: whatever MCP_API_TIMEOUT and MCP_RETRIES hold, the client is
\* constructed with a timeout and a max_retries that are non-negative
\* integers, a value that is no such number having been replaced by the
\* default.
C17_ConfigIsNonNegative ==
    /\ max_retries \in Nat
    /\ timeout \in Nat

\* C18: _make_request returns a value only if one of its HTTP attempts
\* succeeded, and a handler returns a success envelope only if an attempt of
\* its invocation succeeded.
C18_SuccessNeedsSuccessfulAttempt ==
    /\ (pc = "returned" /\ mr.kind = "return") => decoded.kind = "return"
    /\ (/\ pc = "returned"
        /\ op \in Handlers
        /\ out.kind = "return"
        /\ out.value.status = "success")
          => decoded.kind = "return"

\* C19: a success envelope of mcp__get_content_by_name(name) has data.name
\* equal to name, and its data is built from a record that is an element of
\* the list decoded during this invocation.
C19_ContentMatchesRequest ==
    (/\ pc = "returned"
     /\ op = "mcp__get_content_by_name"
     /\ out.kind = "return"
     /\ out.value.status = "success")
        => /\ out.value.data.name = JStr(arg)
           /\ decoded.kind = "return"
           /\ decoded.value.t = "list"
           /\ \E i \in 1..Len(decoded.value.l) :
                 LET rec == decoded.value.l[i]
                 IN  /\ rec.t = "obj"
                     /\ "name" \in DOMAIN rec.o
                     /\ rec.o.name = out.value.data.name
                     /\ out.value.data.id = FieldOr(rec, "id", JNull)
                     /\ out.value.data.content = FieldOr(rec, "content", JNull)

C19_Witness ==
    /\ pc = "returned"
    /\ op = "mcp__get_content_by_name"
    /\ arg = "A"
    /\ decoded = Return(JList(<<Prompt1, Prompt3>>))
    /\ out.kind = "return"
    /\ out.value.status = "success"
    /\ out.value.data.name = JStr("A")
    /\ out.value.data.id = JNum(3)

\* n, or 0 when n is negative
AtLeastZero(n) == IF n > 0 THEN n ELSE 0

C20_Bounded ==
    (op \in Handlers)
        => /\ http <= AtLeastZero(max_retries)
           /\ Len(sleeps) <= AtLeastZero(max_retries - 1)

\* C20: when every HTTP attempt and every sleep ends, a handler invocation
\* in progress eventually returns an envelope, and it never makes more than
\* max_retries attempts nor more than max_retries-1 sleeps (none of either
\* when these numbers are not positive).
C20_InvocationTerminates ==
    /\ []C20_Bounded
    /\ (op \in Handlers /\ pc \in {"attempt", "sleep"})
          ~> (op \in Handlers /\ pc = "returned" /\ out.kind = "return")

C20_Witness ==
    /\ op = "mcp__get_content_by_name"
    /\ pc = "returned"
    /\ max_retries = 3
    /\ http = 3
    /\ sleeps = <<1, 2>>
    /\ out.kind = "return"
    /\ out.value.status = "error"

====
